---- MODULE Spec2Model ----
(***************************************************************************)
(* Model of internal/storage/storage.go: the configuration-driven factory  *)
(* AutoConfig and the presigned-URL lookup Driver.URL.                     *)
(*                                                                         *)
(* Pointers and optional values are sequences of length 0 (nil) or 1.      *)
(* Paths and object keys are sequences of tokens: "/" separated components *)
(* for base paths, and the tokens "/", "." and name fragments for keys.    *)
(***************************************************************************)
EXTENDS Naturals, Sequences, FiniteSets, TLC

\* ---------------------------------------------------------------- bounds

\* How many times the process-wide configuration is changed by a setter.
MaxSets == 1

\* How many URL calls are begun in a behaviour.
MaxURLCalls == 2

\* time.Hour, in seconds: the validity asked of every presigned URL.
Hour == 3600

\* ------------------------------------------------------------ input sets

\* Concurrent (or successive) callers of AutoConfig.
Procs == {"p1", "p2"}

\* Concurrent callers of Driver.URL.
Callers == {"c1", "c2"}

\* Values the backend selector can hold; only "s3" and "local" are valid
\* (the switch compares strings exactly, so "S3" is not "s3").
Backends == {"s3", "local", "S3", "gcs"}

Buckets == {"media", "other"}

\* Base paths, as the components after the leading "/".
\* /gts and /other/../gts name the same directory.
BasePaths == {<<"gts">>, <<"other", "..", "gts">>, <<"other">>}

\* Object keys, as tokens.
Keys ==
  { <<"d", "/", "f", ".", "jpg">>,
    <<"f", ".", "PNG">>,
    <<"d", ".", "png", "/", "f">>,
    <<"f", ".", "xyz">>,
    <<>> }

\* ---------------------------------------------------------------- values

NilErr == [msg |-> "", arg |-> "", wraps |-> ""]

NilStorage == [kind |-> "nil", bucket |-> "", path |-> <<>>, lock |-> <<>>, id |-> ""]

\* *storage.S3Storage opened by caller p on a bucket.
S3Storage(p, bkt) ==
  [kind |-> "s3", bucket |-> bkt, path |-> <<>>, lock |-> <<>>, id |-> p]

\* *storage.DiskStorage opened by caller p, rooted at a store path and
\* holding a lock file.
DiskStorage(p, storePath, lockFile) ==
  [kind |-> "disk", bucket |-> "", path |-> storePath, lock |-> lockFile, id |-> p]

VARIABLES
  cfg,       \* the process-wide configuration
  nsets,     \* how many times it was changed
  pc,        \* AutoConfig: each caller's position
  backend,   \* AutoConfig local: backend (line 70)
  bucket,    \* AutoConfig local: bucket (line 77)
  basePath,  \* AutoConfig local: basePath (line 101)
  st,        \* AutoConfig local: st (line 68)
  kvs,       \* AutoConfig: the value of kv.New(st) (line 124)
  proxy,     \* AutoConfig: the value of config.GetStorageS3Proxy() (line 125)
  ret,       \* AutoConfig: the *Driver returned (nil: <<>>)
  err,       \* AutoConfig: the error returned
  calls,     \* AutoConfig: the collaborator constructors each call invoked
  cerr,      \* AutoConfig: the error the collaborator's constructor returned
  locks,     \* disk collaborator: lock files held, with their holder
  s3open,    \* S3 collaborator: callers holding an open S3 client
  upc,       \* URL: each caller's position
  udrv,      \* URL: the receiver d (the AutoConfig caller that returned it)
  ukey,      \* URL: the key argument
  uctx,      \* URL: whether ctx is already cancelled
  uout,      \* URL: the error of the presign call ("none": not made, "": success)
  uurl,      \* URL local: url (line 60)
  uret,      \* URL: the value returned
  ureq,      \* URL: the request passed to the presign call (none: <<>>)
  ncalls     \* how many URL calls were begun

cvars == <<cfg, nsets>>
avars == <<pc, backend, bucket, basePath, st, kvs, proxy, ret, err, calls, cerr, locks,
          s3open>>
uvars == <<upc, udrv, ukey, uctx, uout, uurl, uret, ureq, ncalls>>
vars == <<cfg, nsets, pc, backend, bucket, basePath, st, kvs, proxy, ret, err,
          calls, cerr, locks, s3open, upc, udrv, ukey, uctx, uout, uurl, uret,
          ureq, ncalls>>

\* --------------------------------------------------------- configuration

Configs == [backend : Backends, bucket : Buckets, proxy : BOOLEAN, basePath : BasePaths]

GetStorageBackend == cfg.backend
GetStorageS3BucketName == cfg.bucket
GetStorageS3Proxy == cfg.proxy
GetStorageLocalBasePath == cfg.basePath

\* A setter of the configuration package changes one field.
SetConfig ==
  /\ nsets < MaxSets
  /\ \E c \in Configs :
       /\ c # cfg
       /\ \/ c = [cfg EXCEPT !.backend = c.backend]
          \/ c = [cfg EXCEPT !.bucket = c.bucket]
          \/ c = [cfg EXCEPT !.proxy = c.proxy]
          \/ c = [cfg EXCEPT !.basePath = c.basePath]
       /\ cfg' = c
  /\ nsets' = nsets + 1
  /\ UNCHANGED <<avars, uvars>>

\* ------------------------------------------------------------- path.Join

RECURSIVE CleanFrom(_, _)
CleanFrom(todo, acc) ==
  IF todo = <<>> THEN acc
  ELSE LET c == Head(todo) IN
       CleanFrom(Tail(todo),
                 IF c \in {"", "."} THEN acc
                 ELSE IF c = ".."
                      THEN (IF acc = <<>> THEN acc ELSE SubSeq(acc, 1, Len(acc) - 1))
                      ELSE Append(acc, c))

\* path.Clean of a rooted path.
Clean(p) == CleanFrom(p, <<>>)

\* path.Join(a, b): the elements joined by "/" and cleaned.
Join(a, b) == Clean(a \o b)

\* A lock file path concatenated without cleaning.
LockFileRaw(base) == base \o <<"store.lock">>

\* line 110: the lock file is kept in the storage directory itself.
LockFile(base) == Join(base, <<"store.lock">>)

\* ------------------------------------------------------------ AutoConfig

\* A switch that folds case and falls back to local storage.
SwitchBackendLenient(b) ==
  IF b \in {"s3", "S3"} THEN "s3" ELSE "local"

\* lines 70-121: the case the switch on the backend selector takes.
SwitchBackend(b) ==
  IF b = "s3" THEN "s3" ELSE IF b = "local" THEN "local" ELSE "default"

ErrInvalidBackend(b) == [msg |-> "invalid storage backend", arg |-> b, wraps |-> ""]
ErrOpenS3(e) == [msg |-> "error opening s3 storage", arg |-> "", wraps |-> e]
\* A disk error formatted without wrapping the cause.
ErrOpenDiskUnwrapped(e) == [msg |-> "error opening disk storage", arg |-> "", wraps |-> ""]
ErrOpenDisk(e) == [msg |-> "error opening disk storage", arg |-> "", wraps |-> e]

\* kv.New(st): a key-value store over the handle.
KVNew(s) == [storage |-> s]

NewDriver(k, s, px, bkt) == [KVStore |-> k, Storage |-> s, Proxy |-> px, Bucket |-> bkt]

\* A return that validates the flags after the backend is open and fails
\* without closing it.
ReturnDriverValidated(k, s, px, bkt) ==
  IF s.kind = "disk" /\ px
  THEN [ret |-> <<>>, err |-> [msg |-> "proxy set for disk storage", arg |-> "", wraps |-> ""]]
  ELSE [ret |-> <<NewDriver(k, s, px, bkt)>>, err |-> NilErr]

\* lines 123-128: what AutoConfig returns once the backend is open.
ReturnDriver(k, s, px, bkt) ==
  [ret |-> <<NewDriver(k, s, px, bkt)>>, err |-> NilErr]

\* storage.OpenDisk: the directory is opened (or made), then the lock file is
\* locked without blocking; a failure leaves nothing held.
OpenDiskErr(lockFile, dirOK) ==
  IF ~dirOK THEN "EACCES"
  ELSE IF \E l \in locks : l.file = lockFile THEN "EWOULDBLOCK"
  ELSE ""

\* line 70: read the selector and take a case of the switch.
AutoConfigSwitch(p) ==
  /\ pc[p] = "start"
  /\ LET b == GetStorageBackend IN
     /\ backend' = [backend EXCEPT ![p] = b]
     /\ CASE SwitchBackend(b) = "s3" ->
               /\ pc' = [pc EXCEPT ![p] = "s3_load"]
               /\ UNCHANGED <<ret, err>>
          [] SwitchBackend(b) = "local" ->
               /\ pc' = [pc EXCEPT ![p] = "local_load"]
               /\ UNCHANGED <<ret, err>>
          [] OTHER ->
               /\ pc' = [pc EXCEPT ![p] = "done"]
               /\ ret' = [ret EXCEPT ![p] = <<>>]
               /\ err' = [err EXCEPT ![p] = ErrInvalidBackend(b)]
  /\ UNCHANGED <<bucket, basePath, st, kvs, proxy, calls, cerr, locks, s3open, cvars,
                 uvars>>

\* lines 73-77: load the S3 configuration.
AutoConfigS3Load(p) ==
  /\ pc[p] = "s3_load"
  /\ bucket' = [bucket EXCEPT ![p] = GetStorageS3BucketName]
  /\ pc' = [pc EXCEPT ![p] = "s3_open"]
  /\ UNCHANGED <<backend, basePath, st, kvs, proxy, ret, err, calls, cerr, locks,
                 s3open, cvars, uvars>>

\* lines 80-97: open the S3 storage; the collaborator succeeds or fails.
AutoConfigOpenS3(p) ==
  /\ pc[p] = "s3_open"
  /\ calls' = [calls EXCEPT ![p] = @ \cup {"OpenS3"}]
  /\ \E e \in {"", "unreachable"} :
       /\ cerr' = [cerr EXCEPT ![p] = e]
       /\ IF e # ""
          THEN /\ pc' = [pc EXCEPT ![p] = "done"]
               /\ ret' = [ret EXCEPT ![p] = <<>>]
               /\ err' = [err EXCEPT ![p] = ErrOpenS3(e)]
               /\ UNCHANGED <<st, s3open>>
          ELSE /\ pc' = [pc EXCEPT ![p] = "kv_new"]
               /\ st' = [st EXCEPT ![p] = S3Storage(p, bucket[p])]
               /\ s3open' = s3open \cup {p}
               /\ UNCHANGED <<ret, err>>
  /\ UNCHANGED <<backend, bucket, basePath, kvs, proxy, locks, cvars, uvars>>

\* line 101: load the local configuration.
AutoConfigLocalLoad(p) ==
  /\ pc[p] = "local_load"
  /\ basePath' = [basePath EXCEPT ![p] = GetStorageLocalBasePath]
  /\ pc' = [pc EXCEPT ![p] = "disk_open"]
  /\ UNCHANGED <<backend, bucket, st, kvs, proxy, ret, err, calls, cerr, locks,
                 s3open, cvars, uvars>>

\* lines 104-117: open the disk storage with its lock file.
AutoConfigOpenDisk(p) ==
  /\ pc[p] = "disk_open"
  /\ calls' = [calls EXCEPT ![p] = @ \cup {"OpenDisk"}]
  /\ \E dirOK \in BOOLEAN :
       LET lf == LockFile(basePath[p])
           e == OpenDiskErr(lf, dirOK)
       IN /\ cerr' = [cerr EXCEPT ![p] = e]
          /\ IF e # ""
             THEN /\ pc' = [pc EXCEPT ![p] = "done"]
                  /\ ret' = [ret EXCEPT ![p] = <<>>]
                  /\ err' = [err EXCEPT ![p] = ErrOpenDisk(e)]
                  /\ UNCHANGED <<st, locks>>
             ELSE /\ pc' = [pc EXCEPT ![p] = "kv_new"]
                  /\ st' = [st EXCEPT ![p] = DiskStorage(p, Clean(basePath[p]), lf)]
                  /\ locks' = locks \cup {[file |-> lf, owner |-> p]}
                  /\ UNCHANGED <<ret, err>>
  /\ UNCHANGED <<backend, bucket, basePath, kvs, proxy, s3open, cvars, uvars>>

\* lines 124-125: wrap the handle, read the proxy flag.
AutoConfigNewKV(p) ==
  /\ pc[p] = "kv_new"
  /\ kvs' = [kvs EXCEPT ![p] = KVNew(st[p])]
  /\ proxy' = [proxy EXCEPT ![p] = GetStorageS3Proxy]
  /\ pc' = [pc EXCEPT ![p] = "read_bucket"]
  /\ UNCHANGED <<backend, bucket, basePath, st, ret, err, calls, cerr, locks,
                 s3open, cvars, uvars>>

\* lines 126-128: read the bucket name again and return the Driver.
AutoConfigReturn(p) ==
  /\ pc[p] = "read_bucket"
  /\ LET r == ReturnDriver(kvs[p], st[p], proxy[p], GetStorageS3BucketName) IN
     /\ ret' = [ret EXCEPT ![p] = r.ret]
     /\ err' = [err EXCEPT ![p] = r.err]
  /\ pc' = [pc EXCEPT ![p] = "done"]
  /\ UNCHANGED <<backend, bucket, basePath, st, kvs, proxy, calls, cerr, locks,
                 s3open, cvars, uvars>>

AutoConfig(p) ==
  \/ AutoConfigSwitch(p)
  \/ AutoConfigS3Load(p)
  \/ AutoConfigOpenS3(p)
  \/ AutoConfigLocalLoad(p)
  \/ AutoConfigOpenDisk(p)
  \/ AutoConfigNewKV(p)
  \/ AutoConfigReturn(p)

\* ------------------------------------------------------------ Driver.URL

\* path.Ext: the suffix from the last "." of the last "/"-separated element.
RECURSIVE ExtFrom(_, _)
ExtFrom(key, i) ==
  IF i = 0 \/ key[i] = "/" THEN <<>>
  ELSE IF key[i] = "." THEN SubSeq(key, i, Len(key))
  ELSE ExtFrom(key, i - 1)

Ext(key) == ExtFrom(key, Len(key))

\* strings.ToLower on a token.
ToLower(t) == IF t = "PNG" THEN "png" ELSE IF t = "JPG" THEN "jpg" ELSE t

\* The built-in table of package mime.
MimeTable(ext) ==
  CASE ext = <<".", "png">> -> "image/png"
    [] ext = <<".", "jpg">> -> "image/jpeg"
    [] OTHER -> ""

\* mime.TypeByExtension: the extension as written, then lower-cased.
TypeByExtension(ext) ==
  IF MimeTable(ext) # "" THEN MimeTable(ext)
  ELSE MimeTable([i \in 1..Len(ext) |-> ToLower(ext[i])])

\* Guards that test only one of the two conditions.
S3Only(d) == d.Storage.kind = "s3"
NoProxyOnly(d) == ~d.Proxy

\* lines 54-55: S3 storage with proxying disabled.
S3NoProxy(d) == d.Storage.kind = "s3" /\ ~d.Proxy

\* A request that asks for time.Minute instead of time.Hour.
PresignArgsMinute(d, ctx, key) ==
  [ctx |-> ctx, bucket |-> d.Bucket, key |-> key, expires |-> Hour \div 60,
   contentType |-> TypeByExtension(Ext(key))]

\* lines 60-62: the arguments of PresignedGetObject.
PresignArgs(d, ctx, key) ==
  [ctx |-> ctx, bucket |-> d.Bucket, key |-> key, expires |-> Hour,
   contentType |-> TypeByExtension(Ext(key))]

\* minio's Client.PresignedGetObject: a URL for exactly the request, or nil and
\* an error. An empty object name is always refused.
PresignedGetObject(args, e) ==
  IF e = "" /\ args.key # <<>>
  THEN [url |-> <<[bucket |-> args.bucket, key |-> args.key, expires |-> args.expires,
                   contentType |-> args.contentType]>>,
        err |-> ""]
  ELSE [url |-> <<>>, err |-> IF args.key = <<>> THEN "empty object name" ELSE e]

\* The errors a presign call can end with: a cancelled context may or may not
\* be noticed by the collaborator.
PresignErrs(ctx) == IF ctx THEN {"", "context canceled"} ELSE {"", "unreachable"}

\* A return that substitutes an unsigned URL when presigning failed.
URLValueFallback(res) ==
  IF res.err # ""
  THEN <<[bucket |-> "", key |-> <<>>, expires |-> 0, contentType |-> ""]>>
  ELSE res.url

\* lines 60, 64: the error is dropped, the URL is returned.
URLValue(res) == res.url

\* A URL that switches its receiver to proxying once presigning failed.
DriverAfterURLFallback(d, u) == IF u = <<>> THEN [d EXCEPT !.Proxy = TRUE] ELSE d

\* lines 52-65: URL assigns no field of its receiver.
DriverAfterURL(d, u) == d

\* A caller begins URL(ctx, key) on a Driver that AutoConfig returned.
URLEnter(c) ==
  /\ upc[c] \in {"idle", "done"}
  /\ ncalls < MaxURLCalls
  /\ \E p \in Procs, key \in Keys, ctx \in BOOLEAN :
       /\ ret[p] # <<>>
       /\ udrv' = [udrv EXCEPT ![c] = p]
       /\ ukey' = [ukey EXCEPT ![c] = key]
       /\ uctx' = [uctx EXCEPT ![c] = ctx]
  /\ upc' = [upc EXCEPT ![c] = "check"]
  /\ uout' = [uout EXCEPT ![c] = "none"]
  /\ uurl' = [uurl EXCEPT ![c] = <<>>]
  /\ uret' = [uret EXCEPT ![c] = <<>>]
  /\ ureq' = [ureq EXCEPT ![c] = <<>>]
  /\ ncalls' = ncalls + 1
  /\ UNCHANGED <<avars, cvars>>

\* lines 54-57: the type assertion and the proxy flag.
URLCheck(c) ==
  /\ upc[c] = "check"
  /\ IF S3NoProxy(ret[udrv[c]][1])
     THEN upc' = [upc EXCEPT ![c] = "presign"]
     ELSE upc' = [upc EXCEPT ![c] = "done"]
  /\ UNCHANGED <<udrv, ukey, uctx, uout, uurl, uret, ureq, ncalls, avars, cvars>>

\* lines 60-62: the presign call.
URLPresign(c) ==
  /\ upc[c] = "presign"
  /\ LET args == PresignArgs(ret[udrv[c]][1], uctx[c], ukey[c]) IN
     /\ ureq' = [ureq EXCEPT ![c] = <<args>>]
     /\ \E e \in PresignErrs(uctx[c]) :
          LET res == PresignedGetObject(args, e) IN
          /\ uout' = [uout EXCEPT ![c] = res.err]
          /\ uurl' = [uurl EXCEPT ![c] = URLValue(res)]
  /\ upc' = [upc EXCEPT ![c] = "return"]
  /\ UNCHANGED <<udrv, ukey, uctx, uret, ncalls, avars, cvars>>

\* line 64: return url.
URLReturn(c) ==
  /\ upc[c] = "return"
  /\ uret' = [uret EXCEPT ![c] = uurl[c]]
  /\ ret' = [ret EXCEPT ![udrv[c]] = <<DriverAfterURL(ret[udrv[c]][1], uurl[c])>>]
  /\ upc' = [upc EXCEPT ![c] = "done"]
  /\ UNCHANGED <<udrv, ukey, uctx, uout, uurl, ureq, ncalls, cvars,
                 pc, backend, bucket, basePath, st, kvs, proxy, err, calls, cerr,
                 locks, s3open>>

URL(c) ==
  \/ URLEnter(c)
  \/ URLCheck(c)
  \/ URLPresign(c)
  \/ URLReturn(c)

\* ------------------------------------------------------------------ Init

Init ==
  /\ cfg \in Configs
  /\ nsets = 0
  /\ pc = [p \in Procs |-> "start"]
  /\ backend = [p \in Procs |-> ""]
  /\ bucket = [p \in Procs |-> ""]
  /\ basePath = [p \in Procs |-> <<>>]
  /\ st = [p \in Procs |-> NilStorage]
  /\ kvs = [p \in Procs |-> KVNew(NilStorage)]
  /\ proxy = [p \in Procs |-> FALSE]
  /\ ret = [p \in Procs |-> <<>>]
  /\ err = [p \in Procs |-> NilErr]
  /\ calls = [p \in Procs |-> {}]
  /\ cerr = [p \in Procs |-> ""]
  /\ locks = {}
  /\ s3open = {}
  /\ upc = [c \in Callers |-> "idle"]
  /\ udrv = [c \in Callers |-> ""]
  /\ ukey = [c \in Callers |-> <<>>]
  /\ uctx = [c \in Callers |-> FALSE]
  /\ uout = [c \in Callers |-> "none"]
  /\ uurl = [c \in Callers |-> <<>>]
  /\ uret = [c \in Callers |-> <<>>]
  /\ ureq = [c \in Callers |-> <<>>]
  /\ ncalls = 0

Next ==
  \/ SetConfig
  \/ \E p \in Procs : AutoConfig(p)

Spec == Init /\ [][Next]_vars

\* The configuration is left alone; the Drivers are used by concurrent callers.
NextURL ==
  \/ \E p \in Procs : AutoConfig(p)
  \/ \E c \in Callers : URL(c)

SpecURL == Init /\ [][NextURL]_vars

\* ---------------------------------------------------------------- claims

\* The Driver a URL caller acts on.
DriverOf(c) == ret[udrv[c]][1]

HoldsNothing(p) == p \notin s3open /\ \A l \in locks : l.owner # p

\* C1: for every selector value outside {"s3", "local"}, AutoConfig ends with
\* the configuration error naming that value and no Driver, having called
\* neither OpenS3 nor OpenDisk, holding no handle and no lock file.
C1_InvalidBackendFails ==
  \A p \in Procs :
    (pc[p] # "start" /\ backend[p] \notin {"s3", "local"}) =>
      /\ pc[p] = "done"
      /\ err[p] = [msg |-> "invalid storage backend", arg |-> backend[p], wraps |-> ""]
      /\ ret[p] = <<>>
      /\ calls[p] = {}
      /\ st[p] = NilStorage
      /\ HoldsNothing(p)

C1_Witness ==
  \E p \in Procs : pc[p] = "done" /\ backend[p] = "S3" /\ err[p].arg = "S3"

\* C2: every finished AutoConfig call returned either a Driver over an open
\* handle and no error, or an error, no Driver, and holds no S3 client and no
\* lock file.
C2_AllOrNothing ==
  \A p \in Procs :
    pc[p] = "done" =>
      \/ /\ err[p] = NilErr
         /\ ret[p] # <<>>
         /\ ret[p][1].KVStore.storage = ret[p][1].Storage
         /\ ret[p][1].Storage.kind \in {"s3", "disk"}
         /\ ret[p][1].Storage.kind = "s3" => p \in s3open
         /\ ret[p][1].Storage.kind = "disk" =>
              [file |-> ret[p][1].Storage.lock, owner |-> p] \in locks
      \/ /\ err[p] # NilErr
         /\ ret[p] = <<>>
         /\ HoldsNothing(p)

C2_Witness ==
  \E p \in Procs :
    /\ pc[p] = "done"
    /\ err[p] = [msg |-> "error opening disk storage", arg |-> "", wraps |-> "EWOULDBLOCK"]
    /\ HoldsNothing(p)
    /\ locks # {}

\* C3: a Driver on local storage holds the lock file store.lock of its base
\* path; no two handles, and so no two Drivers, are open on the same base
\* path; and a finished call on a base path another caller's Driver is open
\* on has failed to open the disk storage.
C3_OneDriverPerBasePath ==
  /\ \A p \in Procs :
       (ret[p] # <<>> /\ ret[p][1].Storage.kind = "disk") =>
         /\ ret[p][1].Storage.path = Clean(basePath[p])
         /\ [file |-> Clean(basePath[p]) \o <<"store.lock">>, owner |-> p] \in locks
  /\ \A p, q \in Procs :
       (p # q /\ st[p].kind = "disk" /\ st[q].kind = "disk") => st[p].path # st[q].path
  /\ \A p, q \in Procs :
       (/\ p # q
        /\ ret[p] # <<>>
        /\ ret[p][1].Storage.kind = "disk"
        /\ pc[q] = "done"
        /\ backend[q] = "local"
        /\ Clean(basePath[q]) = ret[p][1].Storage.path) =>
         /\ ret[q] = <<>>
         /\ err[q].msg = "error opening disk storage"

C3_Witness ==
  \E p, q \in Procs :
    /\ p # q
    /\ ret[p] # <<>>
    /\ ret[p][1].Storage.kind = "disk"
    /\ pc[q] = "done"
    /\ basePath[q] # basePath[p]
    /\ Clean(basePath[q]) = ret[p][1].Storage.path
    /\ err[q].wraps = "EWOULDBLOCK"

\* C4: a URL call on a Driver with S3 storage and the proxy flag set never
\* reaches the presign call and returns nil, for every key and context.
C4_S3ProxyNil ==
  \A c \in Callers :
    (upc[c] # "idle" /\ DriverOf(c).Storage.kind = "s3" /\ DriverOf(c).Proxy) =>
      /\ upc[c] \in {"check", "done"}
      /\ ureq[c] = <<>>
      /\ uout[c] = "none"
      /\ uret[c] = <<>>

C4_Witness ==
  \E c \in Callers :
    /\ upc[c] = "done"
    /\ DriverOf(c).Storage.kind = "s3"
    /\ DriverOf(c).Proxy
    /\ uctx[c]
    /\ ukey[c] = <<"d", "/", "f", ".", "jpg">>

\* C5: a URL call on a Driver with disk storage never reaches the presign
\* call and returns nil, whatever its proxy flag and bucket name.
C5_LocalNil ==
  \A c \in Callers :
    (upc[c] # "idle" /\ DriverOf(c).Storage.kind = "disk") =>
      /\ upc[c] \in {"check", "done"}
      /\ ureq[c] = <<>>
      /\ uout[c] = "none"
      /\ uret[c] = <<>>

C5_Witness ==
  \E c \in Callers :
    /\ upc[c] = "done"
    /\ DriverOf(c).Storage.kind = "disk"
    /\ ~DriverOf(c).Proxy
    /\ DriverOf(c).Bucket = "media"
    /\ ukey[c] = <<"f", ".", "PNG">>

\* C6: a URL call whose presign call ended with an error holds and returns
\* a nil URL.
C6_PresignFailureNil ==
  \A c \in Callers :
    (upc[c] \in {"return", "done"} /\ uout[c] \notin {"none", ""}) =>
      /\ uurl[c] = <<>>
      /\ uret[c] = <<>>

C6_Witness ==
  \E c \in Callers :
    /\ upc[c] = "done"
    /\ uctx[c]
    /\ uout[c] = "context canceled"
    /\ uret[c] = <<>>

\* The MIME type of each key's extension.
C7_ContentType(key) ==
  CASE key = <<"d", "/", "f", ".", "jpg">> -> "image/jpeg"
    [] key = <<"f", ".", "PNG">> -> "image/png"
    [] OTHER -> ""

\* C7: a URL call on a Driver with S3 storage and no proxying whose presign
\* call succeeded returns the presigned GET of the key in the Driver's bucket,
\* asked for one hour and with the content type of the key's extension.
C7_PresignedURL ==
  \A c \in Callers :
    (/\ upc[c] = "done"
     /\ DriverOf(c).Storage.kind = "s3"
     /\ ~DriverOf(c).Proxy
     /\ uout[c] = "") =>
      /\ ureq[c] = <<[ctx |-> uctx[c], bucket |-> DriverOf(c).Bucket, key |-> ukey[c],
                      expires |-> 3600, contentType |-> C7_ContentType(ukey[c])]>>
      /\ uret[c] = <<[bucket |-> DriverOf(c).Bucket, key |-> ukey[c], expires |-> 3600,
                      contentType |-> C7_ContentType(ukey[c])]>>

C7_Witness ==
  \E c1, c2 \in Callers :
    /\ upc[c1] = "done" /\ upc[c2] = "done"
    /\ uout[c1] = "" /\ uout[c2] = ""
    /\ ukey[c1] = <<"d", "/", "f", ".", "jpg">>
    /\ uret[c1] # <<>>
    /\ uret[c1][1].contentType = "image/jpeg"
    /\ ukey[c2] = <<"d", ".", "png", "/", "f">>
    /\ uret[c2] # <<>>
    /\ uret[c2][1].contentType = ""

\* Two finished URL calls on the same Driver with the same key and the same
\* presign outcome returned the same value.
C8_SameInputsSameResult ==
  \A c1, c2 \in Callers :
    (/\ upc[c1] = "done" /\ upc[c2] = "done"
     /\ DriverOf(c1) = DriverOf(c2)
     /\ ukey[c1] = ukey[c2]
     /\ uout[c1] = uout[c2]) => uret[c1] = uret[c2]

\* C8: no step changes a Driver that AutoConfig returned, and URL calls with
\* the same Driver, key and presign outcome return the same value.
C8_DriverReadOnly ==
  [][/\ \A p \in Procs : ret[p] # <<>> => ret'[p] = ret[p]
     /\ C8_SameInputsSameResult']_vars

C8_Witness ==
  \E c1, c2 \in Callers :
    /\ c1 # c2
    /\ upc[c1] = "done" /\ upc[c2] = "done"
    /\ udrv[c1] = udrv[c2]
    /\ ukey[c1] = ukey[c2]
    /\ uctx[c1] # uctx[c2]
    /\ uout[c1] = "" /\ uout[c2] = ""
    /\ uret[c1] # <<>>

\* C9: a finished AutoConfig call returned a Driver exactly when it returned
\* no error; the Driver's handle is the variant of the selector the call read
\* and its key-value store wraps that handle; a failed open gives no Driver
\* and an error naming the backend and wrapping the collaborator's error.
C9_ReturnContract ==
  \A p \in Procs :
    pc[p] = "done" =>
      /\ ret[p] # <<>> <=> err[p] = NilErr
      /\ ret[p] # <<>> =>
           /\ backend[p] \in {"s3", "local"}
           /\ ret[p][1].Storage.kind = (IF backend[p] = "s3" THEN "s3" ELSE "disk")
           /\ ret[p][1].Storage = st[p]
           /\ ret[p][1].Storage.id = p
           /\ ret[p][1].KVStore = [storage |-> ret[p][1].Storage]
      /\ cerr[p] # "" =>
           /\ ret[p] = <<>>
           /\ err[p].wraps = cerr[p]
           /\ "OpenS3" \in calls[p] => err[p].msg = "error opening s3 storage"
           /\ "OpenDisk" \in calls[p] => err[p].msg = "error opening disk storage"

C9_Witness ==
  \E p, q \in Procs :
    /\ pc[p] = "done" /\ pc[q] = "done"
    /\ cerr[p] = "EACCES"
    /\ err[p].wraps = "EACCES"
    /\ ret[q] # <<>>
    /\ ret[q][1].Storage.kind = "s3"

\* C10: the bucket name of every Driver returned with S3 storage is the bucket
\* name its handle was opened with.
C10_BucketMatchesHandle ==
  \A p \in Procs :
    (ret[p] # <<>> /\ ret[p][1].Storage.kind = "s3") =>
      ret[p][1].Bucket = ret[p][1].Storage.bucket

====
